---- MODULE Spec2Model ----
(***************************************************************************)
(* cs-build: the release pipeline of a paired client/server repository.    *)
(* Two revisions of the program are modelled side by side:                 *)
(*   "nightly"  src/lib/index.js     (fetch, gates, tests, build-nightly)  *)
(*   "full"     src/unnamed/part_000 (gates, fetch+pull, tests, version    *)
(*                                    bump, build-<stage>, commit, push)   *)
(* A behaviour is a sequence of CLI invocations (processes) that share the *)
(* persisted configuration store.  Strings the code compares, lower-cases  *)
(* or parses are sequences of character codes.                             *)
(***************************************************************************)
EXTENDS Integers, Sequences, FiniteSets, TLC

VARIABLES
    variant,      \* which revision of the program runs: "full" or "nightly"
    store,        \* persisted configuration: this.config.settings
    phase,        \* position of the process: idle / command / runcom / pipeline / exited
    argv,         \* parsed command line of the running invocation
    execResult,   \* this.execResult of n-cli (0 once the config command ran)
    cfg,          \* the object handed to validateRepositories
    pc,           \* index of the next awaited step of validateRepositories
    fsExists,     \* answers of fs.existsSync for the configured paths (set of paths)
    repo,         \* what the inspector saw per repository (clean, branch, manifest)
    branchOf,     \* clientBranch / serverBranch captured by the full revision
    lastExec,     \* ExecutionResult of the most recent shell.exec
    log,          \* every external command invoked in this run, in order
    cwd,          \* process working directory (process.chdir)
    currentClientVersion, \* what getPackageVersion returned
    effects,      \* what this run has changed in each repository and its remote
    err,          \* the error the run ended with
    out           \* what the invocation printed on success

vars == << variant, store, phase, argv, execResult, cfg, pc, fsExists, repo,
           branchOf, lastExec, log, cwd, currentClientVersion, effects, err, out >>

----------------------------------------------------------------------------
(* Bounds of the model *)

MaxBehind == 3     \* behind counts 0..MaxBehind reported by rev-list
LargeBehind == 12  \* and one behind count of more than one digit
MaxAhead == 1      \* ahead counts 0..MaxAhead reported by rev-list

----------------------------------------------------------------------------
(* Characters *)

ChTab == 9
ChNewline == 10
ChSpace == 32
ChPlus == 43
ChMinus == 45
ChSlash == 47
ChZero == 48
ChNine == 57
ChUpperA == 65
ChUpperZ == 90
ChLowerA == 97
ChLowerB == 98
CaseOffset == 32

\* "/a", "/A", "/b"
PathLowerA == << ChSlash, ChLowerA >>
PathUpperA == << ChSlash, ChUpperA >>
PathLowerB == << ChSlash, ChLowerB >>
Paths == { PathLowerA, PathUpperA, PathLowerB }

----------------------------------------------------------------------------
(* JavaScript values held by argv and the store *)

Undefined == [t |-> "undefined", s |-> << >>]
BoolTrue == [t |-> "boolean", s |-> << >>]
Str(p) == [t |-> "string", s |-> p]

TypeOf(v) == v.t
\* truthiness of a value used as an if condition
Truthy(v) == \/ v.t = "boolean"
             \/ v.t = "string" /\ v.s # << >>

\* String.prototype.toLowerCase on a sequence of character codes
ToLowerChar(c) == IF c >= ChUpperA /\ c <= ChUpperZ THEN c + CaseOffset ELSE c
ToLowerCase(s) == [i \in 1..Len(s) |-> ToLowerChar(s[i])]

----------------------------------------------------------------------------
(* Output of `git rev-list --left-right --count <stage>...HEAD` and its parsing *)

RECURSIVE FormatCount(_)
\* decimal digits of a natural number, as git prints it
FormatCount(n) ==
    IF n < 10 THEN << ChZero + n >>
    ELSE Append(FormatCount(n \div 10), ChZero + (n % 10))

\* what rev-list prints for (behind, ahead); the trailing newline may be absent
RevListStdout(behind, ahead, newline) ==
    FormatCount(behind) \o << ChTab >> \o FormatCount(ahead)
        \o (IF newline THEN << ChNewline >> ELSE << >>)

\* stdout.replace(/\n/g, '')
RemoveNewlines(s) == SelectSeq(s, LAMBDA c : c # ChNewline)

RECURSIVE SplitOn(_, _, _, _)
\* String.prototype.split(sep): fields so far, field being read, rest of the input
SplitOn(sep, fields, cur, rest) ==
    IF rest = << >> THEN Append(fields, cur)
    ELSE IF Head(rest) = sep THEN SplitOn(sep, Append(fields, cur), << >>, Tail(rest))
    ELSE SplitOn(sep, fields, Append(cur, Head(rest)), Tail(rest))
Split(s, sep) == SplitOn(sep, << >>, << >>, s)

NaN == [nan |-> TRUE, val |-> 0]
Num(n) == [nan |-> FALSE, val |-> n]

IsDigit(c) == c >= ChZero /\ c <= ChNine
IsWhite(c) == c \in { ChTab, ChNewline, ChSpace }

RECURSIVE SkipWhite(_)
SkipWhite(s) == IF s # << >> /\ IsWhite(Head(s)) THEN SkipWhite(Tail(s)) ELSE s

RECURSIVE DigitsValue(_, _, _)
\* value of the longest prefix of digits of s; seen = a digit was read
DigitsValue(s, acc, seen) ==
    IF s # << >> /\ IsDigit(Head(s))
    THEN DigitsValue(Tail(s), acc * 10 + (Head(s) - ChZero), TRUE)
    ELSE IF seen THEN Num(acc) ELSE NaN

\* parseInt(s, 10): leading white space, an optional sign, then digits up to the
\* first other character; NaN when no digit is read
ParseInt(s) ==
    LET t == SkipWhite(s)
        neg == t # << >> /\ Head(t) = ChMinus
        u == IF t # << >> /\ Head(t) \in { ChPlus, ChMinus } THEN Tail(t) ELSE t
        r == DigitsValue(u, 0, FALSE)
    IN  IF r.nan THEN NaN ELSE IF neg THEN Num(0 - r.val) ELSE r

\* parseInt(fields[i], 10); a missing field is undefined and parses to NaN
ParseField(fields, i) == IF i <= Len(fields) THEN ParseInt(fields[i]) ELSE NaN

\* a slip: the two fields are read in the wrong order
ParseCounts_Swapped(stdout) ==
    LET s == Split(RemoveNewlines(stdout), ChTab)
    IN  [behind |-> ParseField(s, 2), ahead |-> ParseField(s, 1)]

\* lines 77-79 of checkCommitsBehind: the (behind, ahead) pair read from stdout
ParseCounts(stdout) ==
    LET s == Split(RemoveNewlines(stdout), ChTab)
    IN  [behind |-> ParseField(s, 1), ahead |-> ParseField(s, 2)]

\* a slip: the drift gate lets every parsed count through
BehindIsZero_AnyCount(behind) == ~behind.nan

\* behind === 0
BehindIsZero(behind) == ~behind.nan /\ behind.val = 0

\* exit codes an external command may return
ExitCodes == { 0, 1 }
ExitCodeIsSuccess(code) == code = 0

BehindCounts == 0..MaxBehind \cup { LargeBehind }

----------------------------------------------------------------------------
(* Inputs: projects, stages, branches, manifests, command lines *)

Projects == { "demo", "other" }
Stages == { "development", "nightly" }
Roles == { "client", "server" }

Branches == { "feature/x", "development" }
DefaultProtectedBranches == { "production", "development" }

\* package.json of a repository: csBuild.protectedBranches may be absent
Manifest(has, branches) == [hasProtected |-> has, protectedBranches |-> branches]
Manifests == { Manifest(FALSE, { }), Manifest(TRUE, { "feature/x" }) }

\* a slip: the manifest's list is added to the default instead of replacing it
EffectiveProtected_Merged(manifest) ==
    manifest.protectedBranches \cup DefaultProtectedBranches

\* pkg.csBuild.protectedBranches || ['production', 'development']
EffectiveProtected(manifest) ==
    IF manifest.hasProtected THEN manifest.protectedBranches
    ELSE DefaultProtectedBranches

\* protectedBranches.indexOf(currentBranch) === -1
BranchAllowed(manifest, currentBranch) ==
    currentBranch \notin EffectiveProtected(manifest)

\* values of --client and --server on the command line
ClientArgs == { Undefined, BoolTrue, Str(PathLowerA), Str(PathUpperA) }
ServerArgs == { Undefined, Str(PathLowerA), Str(PathLowerB) }

Argv(pos, client, server) == [pos |-> pos, client |-> client, server |-> server]
ConfigArgvs ==
    { Argv(<< "config" >>, Undefined, Undefined) } \cup
    { Argv(<< "config", p >>, c, s) : p \in Projects, c \in ClientArgs, s \in ServerArgs }
BuildArgvs ==
    { Argv(<< >>, Undefined, Undefined) } \cup
    { Argv(<< p >>, Undefined, Undefined) : p \in Projects } \cup
    { Argv(<< p, s >>, Undefined, Undefined) : p \in Projects, s \in Stages }
NoArgv == Argv(<< >>, Undefined, Undefined)

\* one project's entry of this.config.settings
Entry(client, server) == [present |-> TRUE, client |-> client, server |-> server]
Absent == [present |-> FALSE, client |-> Undefined, server |-> Undefined]

NoCfg == [project |-> "", stage |-> "", settings |-> Absent]

----------------------------------------------------------------------------
(* Errors: cli.Error(kind, message) with the values the message embeds *)

Error(kind, path, branch, counts, cmd, hint) ==
    [kind |-> kind, path |-> path, branch |-> branch,
     behind |-> counts.behind, ahead |-> counts.ahead, cmd |-> cmd, hint |-> hint]
NoCounts == [behind |-> NaN, ahead |-> NaN]
NoError == Error("none", Undefined, "", NoCounts, "", "")

\* Cli.prototype.argAtIndex: the positional argument must be a string
HasArg(a, index) == index + 1 <= Len(a.pos)
ArgAtIndex(a, index) == a.pos[index + 1]
MissingArgument(name) == Error("INVALID_ARGUMENT", Undefined, "", NoCounts, "", name)

----------------------------------------------------------------------------
(* The awaited steps of validateRepositories, in program order *)

Step(op, cmd, role) == [op |-> op, cmd |-> cmd, role |-> role]

\* a slip: the test commands are moved in front of the drift checks
StepsNightly_TestBeforeDrift ==
    << Step("exec", "fetch", "client"),
       Step("exec", "fetch", "server"),
       Step("branch", "", "client"),
       Step("branch", "", "server"),
       Step("exec", "test", "client"),
       Step("exec", "test", "server"),
       Step("drift", "rev-list", "client"),
       Step("drift", "rev-list", "server"),
       Step("exec", "build", "client") >>

StepsNightly ==
    << Step("exec", "fetch", "client"),
       Step("exec", "fetch", "server"),
       Step("branch", "", "client"),
       Step("branch", "", "server"),
       Step("drift", "rev-list", "client"),
       Step("drift", "rev-list", "server"),
       Step("exec", "test", "client"),
       Step("exec", "test", "server"),
       Step("exec", "build", "client") >>

\* a release driver whose commitNewClientVersion does not change directory
StepsFull_CommitWithoutChdir ==
    << Step("branch", "", "client"),
       Step("branch", "", "server"),
       Step("exec", "fetch", "client"),
       Step("exec", "pull", "client"),
       Step("exec", "fetch", "server"),
       Step("exec", "pull", "server"),
       Step("drift", "rev-list", "client"),
       Step("drift", "rev-list", "server"),
       Step("exec", "test", "client"),
       Step("exec", "test", "server"),
       Step("chdir", "", "client"),
       Step("exec", "npm-version", "client"),
       Step("exec", "push-branch", "client"),
       Step("exec", "push-tags", "client"),
       Step("exec", "build", "client"),
       Step("version", "", "client"),
       Step("exec", "git-add", "server"),
       Step("exec", "git-commit", "server"),
       Step("chdir", "", "server"),
       Step("exec", "npm-version", "server"),
       Step("exec", "push-branch", "server"),
       Step("exec", "push-tags", "server") >>

StepsFull ==
    << Step("branch", "", "client"),
       Step("branch", "", "server"),
       Step("exec", "fetch", "client"),
       Step("exec", "pull", "client"),
       Step("exec", "fetch", "server"),
       Step("exec", "pull", "server"),
       Step("drift", "rev-list", "client"),
       Step("drift", "rev-list", "server"),
       Step("exec", "test", "client"),
       Step("exec", "test", "server"),
       \* bumpRepositoryVersion(client, clientBranch)
       Step("chdir", "", "client"),
       Step("exec", "npm-version", "client"),
       Step("exec", "push-branch", "client"),
       Step("exec", "push-tags", "client"),
       Step("exec", "build", "client"),
       Step("version", "", "client"),
       \* commitNewClientVersion(server, stage, currentClientVersion)
       Step("chdir", "", "server"),
       Step("exec", "git-add", "server"),
       Step("exec", "git-commit", "server"),
       \* bumpRepositoryVersion(server, serverBranch)
       Step("chdir", "", "server"),
       Step("exec", "npm-version", "server"),
       Step("exec", "push-branch", "server"),
       Step("exec", "push-tags", "server") >>

Steps == IF variant = "full" THEN StepsFull ELSE StepsNightly

\* commands that act on the repository the process stands in
CwdCommands == { "npm-version", "push-branch", "push-tags", "git-add", "git-commit" }
\* commands that change a repository or its remote
MutatingCommands == { "npm-version", "push-branch", "push-tags", "git-commit" }

\* config.settings.client / config.settings.server
FolderOf(role) == IF role = "client" THEN cfg.settings.client ELSE cfg.settings.server

\* a driver that pushes to the branch named after the stage
CommandArg_PushesStage(step) ==
    CASE step.cmd \in { "pull", "rev-list", "push-branch" } -> cfg.stage
      [] step.cmd = "build" -> IF variant = "full" THEN cfg.stage ELSE "nightly"
      [] step.cmd = "git-commit" -> currentClientVersion
      [] OTHER -> ""

\* the variable part of the command line of a step
CommandArg(step) ==
    CASE step.cmd \in { "pull", "rev-list" } -> cfg.stage
      [] step.cmd = "build" -> IF variant = "full" THEN cfg.stage ELSE "nightly"
      [] step.cmd = "push-branch" -> branchOf[step.role]
      [] step.cmd = "git-commit" -> currentClientVersion
      [] OTHER -> ""

\* the repository a command line names (--git-dir, --prefix); none for CwdCommands
CommandTarget(step) ==
    IF step.cmd \in CwdCommands THEN << >> ELSE FolderOf(step.role).s

\* one invocation of shell.exec as the run records it; behind is the number of
\* commits the repository really was behind when the count command reported it
Command(step, code, behind) ==
    [cmd |-> step.cmd, role |-> step.role, target |-> CommandTarget(step),
     arg |-> CommandArg(step), cwd |-> cwd, code |-> code, behind |-> behind]

ExecutionResult(code, stdout, stderr) == [code |-> code, stdout |-> stdout, stderr |-> stderr]
NoExec == ExecutionResult(0, << >>, << >>)
Stderrs == { << >>, << ChLowerA >> }

NotSeen == [seen |-> FALSE, clean |-> FALSE, branch |-> "", manifest |-> Manifest(FALSE, { })]
Seen(clean, branch, manifest) ==
    [seen |-> TRUE, clean |-> clean, branch |-> branch, manifest |-> manifest]

LaunchDir == << ChSlash >>

\* JSON.parse(pkg).version: a version string, or undefined when the field is missing
Versions == { "1.0.1-0", "undefined" }

----------------------------------------------------------------------------
(* The state after construction: nothing configured, no invocation running *)

RunReset ==
    /\ cfg' = NoCfg
    /\ pc' = 0
    /\ fsExists' = { }
    /\ repo' = [r \in Roles |-> NotSeen]
    /\ branchOf' = [r \in Roles |-> ""]
    /\ lastExec' = NoExec
    /\ log' = << >>
    /\ cwd' = LaunchDir
    /\ currentClientVersion' = ""
    /\ effects' = [r \in Roles |-> { }]
    /\ err' = NoError
    /\ out' = ""

Init ==
    /\ variant \in { "full", "nightly" }
    /\ store = [p \in Projects |-> Absent]
    /\ phase = "idle"
    /\ argv = NoArgv
    /\ execResult = "undefined"
    /\ cfg = NoCfg
    /\ pc = 0
    /\ fsExists = { }
    /\ repo = [r \in Roles |-> NotSeen]
    /\ branchOf = [r \in Roles |-> ""]
    /\ lastExec = NoExec
    /\ log = << >>
    /\ cwd = LaunchDir
    /\ currentClientVersion = ""
    /\ effects = [r \in Roles |-> { }]
    /\ err = NoError
    /\ out = ""

----------------------------------------------------------------------------
(* A process is started with a command line; n-cli routes `config` to its handler *)

Invoke ==
    /\ phase = "idle"
    /\ \E a \in ConfigArgvs \cup BuildArgvs :
          /\ argv' = a
          /\ phase' = IF HasArg(a, 0) /\ ArgAtIndex(a, 0) = "config"
                      THEN "command" ELSE "runcom"
    /\ execResult' = "undefined"
    /\ RunReset
    /\ UNCHANGED << variant, store >>

\* the process has ended; the store is what the next invocation finds
Exit ==
    /\ phase = "exited"
    /\ phase' = "idle"
    /\ argv' = NoArgv
    /\ execResult' = "undefined"
    /\ RunReset
    /\ UNCHANGED << variant, store >>

\* the run ends with an error: nothing else of the pipeline runs
Throw(e) ==
    /\ err' = e
    /\ phase' = "exited"

----------------------------------------------------------------------------
(* cli.on('config') *)

\* typeof this.argv.server !== 'string' && typeof this.argv.client !== 'string'
NoPathOption(a) == TypeOf(a.server) # "string" /\ TypeOf(a.client) # "string"

\* this.config.settings[project] after the handler's assignments
ConfiguredEntry(old, a) ==
    LET e0 == IF old.present THEN old ELSE Entry(Undefined, Undefined)
        e1 == IF Truthy(a.server) THEN [e0 EXCEPT !.server = a.server] ELSE e0
        e2 == IF Truthy(a.client) THEN [e1 EXCEPT !.client = a.client] ELSE e1
    IN  e2

\* this.config.save() is called only in the two assignment branches
ConfigSaved(a) == Truthy(a.server) \/ Truthy(a.client)

ConfigCommand ==
    /\ phase = "command"
    /\ UNCHANGED << effects, variant, argv, cfg, pc, fsExists, repo, branchOf, lastExec, log,
                    cwd, currentClientVersion >>
    /\ IF Len(argv.pos) = 1
       THEN /\ out' = "config printed"
            /\ execResult' = "0"
            /\ phase' = "runcom"
            /\ UNCHANGED << store, err >>
       ELSE IF ~HasArg(argv, 1)
       THEN /\ Throw(MissingArgument("[PROJECT]"))
            /\ UNCHANGED << store, out, execResult >>
       ELSE IF NoPathOption(argv)
       THEN /\ Throw(Error("INVALID_ARGUMENTS", Undefined, "", NoCounts, "", "--client --server"))
            /\ UNCHANGED << store, out, execResult >>
       ELSE LET project == ArgAtIndex(argv, 1)
            IN  /\ store' = IF ConfigSaved(argv)
                            THEN [store EXCEPT ![project] = ConfiguredEntry(store[project], argv)]
                            ELSE store
                /\ out' = "settings written"
                /\ execResult' = "0"
                /\ phase' = "runcom"
                /\ UNCHANGED err

----------------------------------------------------------------------------
(* cli.runcom: a build invocation looks its project up and starts the pipeline *)

\* a slip: the callback does not look at execResult and always builds
CommandHandled_Never == FALSE

\* this.execResult === 0: the config command has handled the invocation
CommandHandled == execResult = "0"

\* this.config.settings[project]; undefined for a name that was never configured
SettingsOf(project) == IF project \in DOMAIN store THEN store[project] ELSE Absent

Runcom ==
    /\ phase = "runcom"
    /\ UNCHANGED << effects, variant, store, argv, execResult, pc, fsExists, repo, branchOf,
                    lastExec, log, cwd, currentClientVersion, out >>
    /\ IF CommandHandled
       THEN /\ phase' = "exited"
            /\ UNCHANGED << cfg, err >>
       ELSE IF ~HasArg(argv, 0)
       THEN /\ Throw(MissingArgument("[PROJECT]"))
            /\ UNCHANGED cfg
       ELSE IF ~HasArg(argv, 1)
       THEN /\ Throw(MissingArgument("[STAGE]"))
            /\ UNCHANGED cfg
       ELSE LET project == ArgAtIndex(argv, 0)
                stage == ArgAtIndex(argv, 1)
                config == SettingsOf(project)
            IN  IF ~config.present
                THEN /\ Throw(Error("INVALID_CONFIG", Undefined, "", NoCounts, "", "config"))
                     /\ UNCHANGED cfg
                ELSE /\ cfg' = [project |-> project, stage |-> stage, settings |-> config]
                     /\ phase' = "validate"
                     /\ UNCHANGED err

----------------------------------------------------------------------------
(* validateRepositories: the configuration checks before the first await *)

\* fs.existsSync(v): false for anything that is not an existing path
ExistsSync(v, existing) == TypeOf(v) = "string" /\ v.s \in existing

\* a slip: the two folders are compared as written
SameFolder_CaseSensitive(client, server) == client.s = server.s

\* config.settings.client.toLowerCase() === config.settings.server.toLowerCase()
SameFolder(client, server) == ToLowerCase(client.s) = ToLowerCase(server.s)

\* the INVALID_CONFIG error of the three checks, or NoError when they pass
ConfigError(settings, existing) ==
    IF ~ExistsSync(settings.server, existing)
    THEN Error("INVALID_CONFIG", settings.server, "", NoCounts, "", "--server")
    ELSE IF ~ExistsSync(settings.client, existing)
    THEN Error("INVALID_CONFIG", settings.server, "", NoCounts, "", "--client")
    ELSE IF SameFolder(settings.client, settings.server)
    THEN Error("INVALID_CONFIG", Undefined, "", NoCounts, "", "different")
    ELSE NoError

\* the paths the configuration names
ConfiguredPaths(settings) ==
    { v.s : v \in { w \in { settings.client, settings.server } : TypeOf(w) = "string" } }

ValidateConfig ==
    /\ phase = "validate"
    /\ \E existing \in SUBSET ConfiguredPaths(cfg.settings) :
          /\ fsExists' = existing
          /\ LET e == ConfigError(cfg.settings, existing)
             IN  IF e.kind # "none"
                 THEN /\ Throw(e)
                      /\ pc' = pc
                 ELSE /\ phase' = "pipeline"
                      /\ pc' = 1
                      /\ UNCHANGED err
    /\ UNCHANGED << effects, variant, store, argv, execResult, cfg, repo, branchOf, lastExec,
                    log, cwd, currentClientVersion, out >>

----------------------------------------------------------------------------
(* The awaited steps *)

InPipeline(op) == phase = "pipeline" /\ pc \in 1..Len(Steps) /\ Steps[pc].op = op

\* a slip: the last statement returns and the run is never wound up
Return_NeverEnds ==
    /\ pc' = pc + 1
    /\ phase' = "pipeline"
    /\ UNCHANGED err

\* the awaited call returned: the next statement of validateRepositories runs
Return ==
    /\ pc' = pc + 1
    /\ phase' = IF pc = Len(Steps) THEN "exited" ELSE "pipeline"
    /\ UNCHANGED err

\* the awaited call rejected: validateRepositories rejects at this statement
Reject(e) ==
    /\ Throw(e)
    /\ pc' = pc

\* a slip: the result of isGitClean is not looked at
BranchGateError_IgnoresDirty(folder, clean, manifest, currentBranch) ==
    IF BranchAllowed(manifest, currentBranch)
    THEN NoError
    ELSE Error("INVALID_REPOSITORY_BRANCH", folder, currentBranch, NoCounts, "", "")

\* the error validateRepositoryBranch throws, or NoError when the gate passes
BranchGateError(folder, clean, manifest, currentBranch) ==
    IF clean
    THEN IF BranchAllowed(manifest, currentBranch)
         THEN NoError
         ELSE Error("INVALID_REPOSITORY_BRANCH", folder, currentBranch, NoCounts, "", "")
    ELSE Error("INVALID_REPOSITORY_STATE", folder, "", NoCounts, "", "")

\* only the full revision returns the branch and keeps it
CapturesBranch == variant = "full"

ValidateRepositoryBranch ==
    /\ InPipeline("branch")
    /\ LET role == Steps[pc].role
           folder == FolderOf(role)
       IN  \/ \* isGitClean resolves false: manifest and branch are not read
              /\ repo' = [repo EXCEPT ![role] = Seen(FALSE, "", Manifest(FALSE, { }))]
              /\ Reject(BranchGateError(folder, FALSE, Manifest(FALSE, { }), ""))
              /\ UNCHANGED branchOf
           \/ \E manifest \in Manifests, currentBranch \in Branches :
                 LET e == BranchGateError(folder, TRUE, manifest, currentBranch)
                 IN  /\ repo' = [repo EXCEPT ![role] = Seen(TRUE, currentBranch, manifest)]
                     /\ IF e.kind # "none"
                        THEN /\ Reject(e)
                             /\ UNCHANGED branchOf
                        ELSE /\ Return
                             /\ branchOf' = IF CapturesBranch
                                            THEN [branchOf EXCEPT ![role] = currentBranch]
                                            ELSE branchOf
    /\ UNCHANGED << effects, variant, store, argv, execResult, cfg, fsExists, lastExec, log,
                    cwd, currentClientVersion, out >>

\* a slip: output on stderr is taken for failure, the exit code is not looked at
ShellError_OnStderr(step, result) ==
    IF result.stderr = << >>
    THEN NoError
    ELSE Error("SHELL_COMMAND_FAIL", Undefined, "", NoCounts, step.cmd, step.role)

\* a slip: the exit code is not looked at and the step always succeeds
ShellError_NeverThrows(step, result) == NoError

\* execShellCommand: the error for an exit code, or NoError
ShellError(step, result) ==
    IF ExitCodeIsSuccess(result.code)
    THEN NoError
    ELSE Error("SHELL_COMMAND_FAIL", Undefined, "", NoCounts, step.cmd, step.role)

\* a slip: a failed command takes back what the run had done to that repository
Applied_RollsBackOnFailure(step, code) ==
    IF code = 0
    THEN IF step.cmd \in MutatingCommands
         THEN [effects EXCEPT ![step.role] = @ \cup { step.cmd }]
         ELSE effects
    ELSE [effects EXCEPT ![step.role] = { }]

\* what the run has changed once the command returned: a mutating command that
\* exited 0 has left its mark; nothing a failing command follows takes one back
Applied(step, code) ==
    IF code = 0 /\ step.cmd \in MutatingCommands
    THEN [effects EXCEPT ![step.role] = @ \cup { step.cmd }]
    ELSE effects

ExecShellCommand ==
    /\ InPipeline("exec")
    /\ \E code \in ExitCodes, stderr \in Stderrs :
          LET step == Steps[pc]
              result == ExecutionResult(code, << >>, stderr)
              e == ShellError(step, result)
          IN  /\ lastExec' = result
              /\ log' = Append(log, Command(step, code, NaN))
              /\ effects' = Applied(step, code)
              /\ IF e.kind # "none" THEN Reject(e) ELSE Return
    /\ UNCHANGED << variant, store, argv, execResult, cfg, fsExists, repo, branchOf,
                    cwd, currentClientVersion, out >>

\* a slip: the counts are read before the exit code is looked at
DriftError_ParsesFirst(result) ==
    LET counts == ParseCounts(result.stdout)
    IN  IF ~counts.behind.nan /\ counts.behind.val > 0
        THEN Error("COMMITS_BEHIND", Undefined, "", counts, "rev-list", "")
        ELSE IF ExitCodeIsSuccess(result.code)
        THEN NoError
        ELSE Error("GIT_ERROR", Undefined, "", NoCounts, "rev-list", "")

\* checkCommitsBehind: the error for a result of the count command, or NoError
DriftError(result) ==
    IF ExitCodeIsSuccess(result.code)
    THEN LET counts == ParseCounts(result.stdout)
         IN  IF BehindIsZero(counts.behind)
             THEN NoError
             ELSE Error("COMMITS_BEHIND", Undefined, "", counts, "rev-list", "")
    ELSE Error("GIT_ERROR", Undefined, "", NoCounts, "rev-list", "")

\* what the count command may print when it fails
FailedStdouts ==
    { << >>, RevListStdout(0, 0, TRUE), RevListStdout(LargeBehind, MaxAhead, TRUE) }

\* the await of shell.exec in checkCommitsBehind and what follows it
Drifted(result, behind) ==
    LET e == DriftError(result)
    IN  /\ lastExec' = result
        /\ log' = Append(log, Command(Steps[pc], result.code, behind))
        /\ IF e.kind # "none" THEN Reject(e) ELSE Return

CheckCommitsBehind ==
    /\ InPipeline("drift")
    /\ \E stderr \in Stderrs :
          \/ \* the count command succeeds and prints the two counts
             \E behind \in BehindCounts, ahead \in 0..MaxAhead, newline \in BOOLEAN :
                Drifted(ExecutionResult(0, RevListStdout(behind, ahead, newline), stderr),
                        Num(behind))
          \/ \* the count command fails, whatever it printed
             \E code \in ExitCodes \ { 0 }, stdout \in FailedStdouts :
                Drifted(ExecutionResult(code, stdout, stderr), NaN)
    /\ UNCHANGED << effects, variant, store, argv, execResult, cfg, fsExists, repo, branchOf,
                    cwd, currentClientVersion, out >>

\* process.chdir(folder) at the head of bumpRepositoryVersion / commitNewClientVersion
\* process.chdir(folder): an absolute folder replaces the working directory, a
\* relative one is resolved against it
Resolve(from, folder) ==
    IF Len(folder) > 0 /\ folder[1] = ChSlash
        THEN folder
        ELSE from \o << ChSlash >> \o folder

Chdir ==
    /\ InPipeline("chdir")
    /\ cwd' = Resolve(cwd, FolderOf(Steps[pc].role).s)
    /\ Return
    /\ UNCHANGED << effects, variant, store, argv, execResult, cfg, fsExists, repo, branchOf,
                    lastExec, log, currentClientVersion, out >>

\* getPackageVersion: JSON.parse throws on a malformed manifest
GetPackageVersion ==
    /\ InPipeline("version")
    /\ \/ \E v \in Versions :
             /\ currentClientVersion' = v
             /\ Return
       \/ /\ Reject(Error("SyntaxError", FolderOf(Steps[pc].role), "", NoCounts, "", ""))
          /\ UNCHANGED currentClientVersion
    /\ UNCHANGED << effects, variant, store, argv, execResult, cfg, fsExists, repo, branchOf,
                    lastExec, log, cwd, out >>

----------------------------------------------------------------------------

Next ==
    \/ Invoke
    \/ ConfigCommand
    \/ Runcom
    \/ ValidateConfig
    \/ ValidateRepositoryBranch
    \/ ExecShellCommand
    \/ CheckCommitsBehind
    \/ Chdir
    \/ GetPackageVersion
    \/ Exit

Spec == Init /\ [][Next]_vars

\* every awaited call of a running pipeline returns: external commands and the
\* inspector's queries come back, with whatever result
PipelineStep ==
    \/ ValidateRepositoryBranch
    \/ ExecShellCommand
    \/ CheckCommitsBehind
    \/ Chdir
    \/ GetPackageVersion

\* One invocation on a store that `config demo --client /a --server /b` has
\* written (a store Spec reaches), followed to its end: the process is not
\* started again, and every awaited call of its pipeline returns.
InitConfigured ==
    /\ variant \in { "full", "nightly" }
    /\ store = [p \in Projects |->
                   IF p = "demo" THEN Entry(Str(PathLowerA), Str(PathLowerB)) ELSE Absent]
    /\ phase = "idle"
    /\ argv = NoArgv
    /\ execResult = "undefined"
    /\ cfg = NoCfg
    /\ pc = 0
    /\ fsExists = { }
    /\ repo = [r \in Roles |-> NotSeen]
    /\ branchOf = [r \in Roles |-> ""]
    /\ lastExec = NoExec
    /\ log = << >>
    /\ cwd = LaunchDir
    /\ currentClientVersion = ""
    /\ effects = [r \in Roles |-> { }]
    /\ err = NoError
    /\ out = ""

NextOnce ==
    \/ Invoke
    \/ ConfigCommand
    \/ Runcom
    \/ ValidateConfig
    \/ PipelineStep

SpecLive == InitConfigured /\ [][NextOnce]_vars /\ WF_vars(PipelineStep)

----------------------------------------------------------------------------
(* What a run has observed, stated from the observations alone *)

Last(s) == s[Len(s)]

\* a build run was started on a stored configuration
BuildRun == cfg.settings.present
\* ... and its configuration checks have been evaluated
Validated == BuildRun /\ phase \in { "pipeline", "exited" }

PathExists(v) == v.t = "string" /\ v.s \in fsExists
EqualIgnoringCase(a, b) ==
    /\ Len(a) = Len(b)
    /\ \A i \in 1..Len(a) : ToLowerChar(a[i]) = ToLowerChar(b[i])
ConfigInvalid ==
    \/ ~PathExists(cfg.settings.client)
    \/ ~PathExists(cfg.settings.server)
    \/ EqualIgnoringCase(cfg.settings.client.s, cfg.settings.server.s)

ProtectedSetOf(r) ==
    IF repo[r].manifest.hasProtected
    THEN repo[r].manifest.protectedBranches
    ELSE { "production", "development" }
OnProtectedBranch(r) == repo[r].clean /\ repo[r].branch \in ProtectedSetOf(r)
GateRefused(r) == repo[r].seen /\ (~repo[r].clean \/ OnProtectedBranch(r))
GatePassed(r) == repo[r].seen /\ repo[r].clean /\ repo[r].branch \notin ProtectedSetOf(r)

Ran(cmd, role) == \E i \in 1..Len(log) : log[i].cmd = cmd /\ log[i].role = role
Succeeded(cmd, role) ==
    \E i \in 1..Len(log) : log[i].cmd = cmd /\ log[i].role = role /\ log[i].code = 0
CommandFailed == \E i \in 1..Len(log) : log[i].code # 0
BehindReported ==
    \E i \in 1..Len(log) :
        log[i].cmd = "rev-list" /\ log[i].code = 0 /\ log[i].behind.val > 0
NotBehind(role) ==
    \E i \in 1..Len(log) :
        /\ log[i].cmd = "rev-list" /\ log[i].role = role
        /\ log[i].code = 0 /\ log[i].behind = Num(0)

\* some step of the run has failed
StepFailed ==
    \/ Validated /\ ConfigInvalid
    \/ \E r \in Roles : GateRefused(r)
    \/ CommandFailed
    \/ BehindReported

\* the gate of role r is the statement validateRepositories stopped at
StoppedAtGate(r) ==
    /\ phase = "exited"
    /\ pc \in 1..Len(Steps)
    /\ Steps[pc] = Step("branch", "", r)

----------------------------------------------------------------------------
(* C1: once any step of validateRepositories fails (configuration check,     *)
(* fetch/pull, branch gate, drift gate, test, bump, push, commit, build), the *)
(* run has ended with an error and the only thing that follows is the end of  *)
(* the process: no later step starts, no further command is invoked; a run    *)
(* ends with every step completed or at its first failing step.               *)
C1_FirstFailureAborts ==
    [][ /\ StepFailed =>
            /\ phase = "exited" /\ err.kind # "none"
            /\ phase' = "idle"
        /\ \A i \in 1..Len(log) : log[i].code # 0 => i = Len(log)
        /\ (phase = "exited" /\ BuildRun) =>
              \/ err.kind = "none" /\ pc = Len(Steps) + 1 /\ ~StepFailed
              \/ err.kind # "none" /\ pc <= Len(Steps)
      ]_vars

\* a test command failed in the middle of the full pipeline
C1_Witness ==
    /\ variant = "full" /\ phase = "exited"
    /\ err.kind = "SHELL_COMMAND_FAIL" /\ err.cmd = "test" /\ err.hint = "server"
    /\ Len(log) = 8

(* C2: in the full revision no mutating command (npm version, git commit, git *)
(* push) is in the log unless both paths exist and differ, both trees were     *)
(* clean, both branches were outside their protected sets, both behind counts  *)
(* were zero and both test commands exited 0.                                  *)
C2_MutationOnlyAfterAllGates ==
    (variant = "full" /\ \E i \in 1..Len(log) : log[i].cmd \in MutatingCommands) =>
        /\ PathExists(cfg.settings.client) /\ PathExists(cfg.settings.server)
        /\ cfg.settings.client.s # cfg.settings.server.s
        /\ ~EqualIgnoringCase(cfg.settings.client.s, cfg.settings.server.s)
        /\ \A r \in Roles :
              /\ GatePassed(r)
              /\ NotBehind(r)
              /\ Succeeded("test", r)

\* the first mutating command of a run has been invoked
C2_Witness ==
    /\ variant = "full"
    /\ log # << >> /\ Last(log).cmd = "npm-version" /\ Last(log).role = "client"

(* C3: a build run on a configured {client, server} pair fails with           *)
(* INVALID_CONFIG exactly when the client path does not exist, the server path *)
(* does not exist, or the two paths are equal ignoring case; and then no       *)
(* external command has been invoked.                                          *)
C3_InvalidConfigIff ==
    Validated =>
        /\ (err.kind = "INVALID_CONFIG") <=> ConfigInvalid
        /\ err.kind = "INVALID_CONFIG" => log = << >> /\ phase = "exited" /\ pc = 0

\* both folders exist, they differ only in case, and the run was refused
C3_Witness ==
    /\ Validated /\ err.kind = "INVALID_CONFIG"
    /\ PathExists(cfg.settings.client) /\ PathExists(cfg.settings.server)
    /\ cfg.settings.client.s # cfg.settings.server.s

C5_BehindIff ==
    (log # << >> /\ Last(log).cmd = "rev-list" /\ lastExec.code = 0) =>
        \A b \in BehindCounts, a \in 0..MaxAhead, nl \in BOOLEAN :
            lastExec.stdout = RevListStdout(b, a, nl) =>
                /\ (b > 0) <=> (err.kind = "COMMITS_BEHIND" /\ phase = "exited")
                /\ (b = 0) <=> err.kind = "none"
                /\ err.kind = "COMMITS_BEHIND" => err.behind = Num(b) /\ err.ahead = Num(a)

\* behind 0 with ahead 1 passes the gate
C5_Witness ==
    /\ log # << >> /\ Last(log).cmd = "rev-list" /\ lastExec.code = 0
    /\ lastExec.stdout = RevListStdout(0, 1, FALSE)
    /\ err.kind = "none"

(* C6: when the rev-list count command exits non-zero, checkCommitsBehind      *)
(* fails with GIT_ERROR whatever stdout holds; COMMITS_BEHIND is raised only   *)
(* when the command exited 0.                                                  *)
C6_GitErrorOnNonZeroExit ==
    /\ (log # << >> /\ Last(log).cmd = "rev-list" /\ lastExec.code # 0) =>
          err.kind = "GIT_ERROR" /\ phase = "exited"
    /\ err.kind = "COMMITS_BEHIND" =>
          log # << >> /\ Last(log).cmd = "rev-list" /\ Last(log).code = 0 /\ lastExec.code = 0

\* the failed command printed counts that say "behind", and GIT_ERROR was raised
C6_Witness ==
    /\ log # << >> /\ Last(log).cmd = "rev-list" /\ lastExec.code # 0
    /\ lastExec.stdout = RevListStdout(LargeBehind, MaxAhead, TRUE)
    /\ err.kind = "GIT_ERROR"

(* C7 as stated: SHELL_COMMAND_FAIL is raised for every external command       *)
(* invocation of the pipeline whose exit code is non-zero, and never for an    *)
(* invocation that exited 0.                                                   *)
C7_EveryNonZeroExitIsShellCommandFail ==
    /\ \A i \in 1..Len(log) : log[i].code # 0 => err.kind = "SHELL_COMMAND_FAIL"
    /\ err.kind = "SHELL_COMMAND_FAIL" => log # << >> /\ Last(log).code # 0

(* C7 amended: SHELL_COMMAND_FAIL is raised for every command run through      *)
(* execShellCommand (every external command but the rev-list count command)    *)
(* whose exit code is non-zero, and never for an exit code of 0, whatever      *)
(* stderr holds; a non-zero exit of the rev-list count command raises          *)
(* GIT_ERROR instead.                                                          *)
C7_ShellCommandFailIff ==
    /\ \A i \in 1..Len(log) :
          log[i].code # 0 =>
              IF log[i].cmd = "rev-list"
              THEN err.kind = "GIT_ERROR"
              ELSE /\ err.kind = "SHELL_COMMAND_FAIL" /\ err.cmd = log[i].cmd
                   /\ phase = "exited"
    /\ err.kind = "SHELL_COMMAND_FAIL" =>
          /\ log # << >> /\ Last(log).cmd # "rev-list"
          /\ Last(log).code # 0 /\ lastExec.code # 0

\* a fetch failed without a word on stderr
C7_Witness ==
    /\ err.kind = "SHELL_COMMAND_FAIL" /\ err.cmd = "fetch"
    /\ lastExec.code # 0 /\ lastExec.stderr = << >>

FetchedBoth ==
    /\ \A r \in Roles : Succeeded("fetch", r)
    /\ variant = "full" => \A r \in Roles : Succeeded("pull", r)
GateEvaluated == \E r \in Roles : repo[r].seen
FetchStarted == \E r \in Roles : Ran("fetch", r) \/ Ran("pull", r)
DriftStarted == \E r \in Roles : Ran("rev-list", r)
TestStarted == \E r \in Roles : Ran("test", r)
ReleaseStarted ==
    \E i \in 1..Len(log) : log[i].cmd \in MutatingCommands \cup { "build", "git-add" }

\* what both revisions share: configuration first, then drift, tests, build/release
OrderAfterGates ==
    /\ (GateEvaluated \/ log # << >>) => Validated /\ ~ConfigInvalid
    /\ DriftStarted => FetchedBoth /\ \A r \in Roles : GatePassed(r)
    /\ TestStarted => \A r \in Roles : NotBehind(r)
    /\ ReleaseStarted => \A r \in Roles : Succeeded("test", r)

(* C8 as stated: in every run the gates are passed in the order                *)
(* ConfigValidated, Fetched, BranchGated, DriftGated, Tested, Built/Released;  *)
(* both remotes are fetched before either branch gate is evaluated.            *)
C8_FetchedBeforeBranchGated ==
    /\ OrderAfterGates
    /\ GateEvaluated => \A r \in Roles : Succeeded("fetch", r)

(* C8 amended: in every run ConfigValidated comes first and DriftGated, Tested *)
(* and Built/Released follow in that order, after both Fetched and             *)
(* BranchGated; in the nightly revision both remotes are fetched before either *)
(* branch gate is evaluated, in the full revision both branch gates have       *)
(* passed before any fetch or pull is run.                                     *)
C8_GateOrder ==
    /\ OrderAfterGates
    /\ variant = "nightly" => (GateEvaluated => \A r \in Roles : Succeeded("fetch", r))
    /\ variant = "full" => (FetchStarted => \A r \in Roles : GatePassed(r))

\* the full revision fetches after both branch gates have passed
C8_Witness ==
    /\ variant = "full"
    /\ \A r \in Roles : GatePassed(r)
    /\ Len(log) = 1 /\ Last(log).cmd = "fetch" /\ Last(log).code = 0

(* C9: when the server working tree is found dirty (the configuration is valid *)
(* and the client passed its gate), the run has ended at the server's branch   *)
(* gate with INVALID_REPOSITORY_STATE naming the server path, and nothing but  *)
(* the fetch/drift commands run before it was invoked: no test, bump, commit,  *)
(* push or build.                                                              *)
C9_DirtyServerAborts ==
    (repo["server"].seen /\ ~repo["server"].clean) =>
        /\ StoppedAtGate("server")
        /\ err.kind = "INVALID_REPOSITORY_STATE" /\ err.path = cfg.settings.server
        /\ Validated /\ ~ConfigInvalid /\ GatePassed("client")
        /\ \A i \in 1..Len(log) : log[i].cmd \in { "fetch", "rev-list" } /\ log[i].code = 0

\* the nightly revision had fetched both remotes when it found the server dirty
C9_Witness ==
    /\ variant = "nightly"
    /\ repo["server"].seen /\ ~repo["server"].clean
    /\ err.kind = "INVALID_REPOSITORY_STATE" /\ err.path = Str(PathLowerB)
    /\ Len(log) = 2

IsConfigArgv == Len(argv.pos) = 2 /\ argv.pos[1] = "config"

(* C10: the config command rejects with INVALID_CONFIG a request that sets     *)
(* client and server of a project to the same path, so identical paths are     *)
(* never stored.                                                               *)
C10_ConfigRejectsIdenticalPaths ==
    /\ (IsConfigArgv /\ argv.client.t = "string" /\ argv.client = argv.server
            /\ phase \in { "runcom", "exited" })
          => err.kind = "INVALID_CONFIG"
    /\ \A p \in Projects :
          (store[p].client.t = "string" /\ store[p].server.t = "string")
              => store[p].client.s # store[p].server.s


(* C11: for every build invocation <PROJECT> <STAGE>, STAGE is both the        *)
(* reference of the drift check of both repositories and the suffix of the     *)
(* client build script: the build command invoked is npm run build-<STAGE>.    *)
C11_StageSelectsDriftAndBuild ==
    \A i \in 1..Len(log) :
        /\ log[i].cmd = "rev-list" => log[i].arg = ArgAtIndex(argv, 1)
        /\ log[i].cmd = "build" => log[i].arg = ArgAtIndex(argv, 1)

(* C12: when the configuration check fails because a repository path is       *)
(* missing, the INVALID_CONFIG error names the path that is missing (the       *)
(* client path when the client is missing, the server path when the server is  *)
(* missing) together with the matching remediation option.                     *)
C12_MissingPathIsNamed ==
    (Validated /\ err.kind = "INVALID_CONFIG") =>
        /\ ~PathExists(cfg.settings.server) =>
              err.path = cfg.settings.server /\ err.hint = "--server"
        /\ (PathExists(cfg.settings.server) /\ ~PathExists(cfg.settings.client)) =>
              err.path = cfg.settings.client /\ err.hint = "--client"


(* C13: no step of the pipeline undoes an earlier mutation: what the run has   *)
(* bumped, committed or pushed stays in place when a later command fails and   *)
(* the run aborts; a bumped client whose push failed, and a released client    *)
(* beside an untouched server, are left as they are.                           *)
C13_NoRollback ==
    [][ phase' # "idle" =>
            /\ \A r \in Roles : effects[r] \subseteq effects'[r]
            /\ \A i \in 1..Len(log') :
                  (log'[i].code = 0 /\ log'[i].cmd \in MutatingCommands)
                      => log'[i].cmd \in effects'[log'[i].role]
      ]_vars

\* npm version prerelease succeeded for the client, the push that follows failed
C13_Witness ==
    /\ phase = "exited"
    /\ err.kind = "SHELL_COMMAND_FAIL" /\ err.cmd = "push-branch" /\ err.hint = "client"
    /\ effects["client"] = { "npm-version" }
    /\ effects["server"] = { }


\* validateRepositories stopped at the statement that reads the client's version
StoppedAtVersionRead ==
    /\ phase = "exited" /\ err.kind # "none"
    /\ pc \in 1..Len(Steps) /\ Steps[pc].op = "version"

(* C14: reading the client's version fails with an INVALID_CONFIG error when   *)
(* the manifest is malformed JSON or has no version field, so the server       *)
(* commit `add client version <v>` is never reached with an undefined version. *)
C14_VersionReadIsChecked ==
    /\ StoppedAtVersionRead => err.kind = "INVALID_CONFIG"
    /\ currentClientVersion # "undefined"
    /\ \A i \in 1..Len(log) :
          log[i].cmd \in { "git-add", "git-commit" } => currentClientVersion = "1.0.1-0"


\* the invocation is one of the config command
ConfigInvocation == Len(argv.pos) >= 1 /\ argv.pos[1] = "config"

(* C15: configuration writes and build runs exclude each other within one      *)
(* invocation: an invocation handled by the config command never enters the    *)
(* build (no project lookup, validateRepositories is not called, no external   *)
(* command runs), and a build invocation never writes the configuration store. *)
C15_ConfigAndBuildExclusive ==
    [][ /\ ConfigInvocation' =>
              /\ ~BuildRun' /\ phase' \notin { "validate", "pipeline" }
              /\ log' = << >> /\ pc' = 0
              /\ err'.kind \in { "none", "INVALID_ARGUMENT", "INVALID_ARGUMENTS" }
        /\ store' # store => ConfigInvocation /\ phase = "command" /\ ~BuildRun
        /\ (phase' \in { "validate", "pipeline" } \/ BuildRun') => store' = store
      ]_vars

\* a config command has written the store and the process ended without a build
C15_Witness ==
    /\ ConfigInvocation /\ phase = "exited" /\ out = "settings written"
    /\ store["demo"].present /\ store["other"].present
    /\ err.kind = "none" /\ log = << >>


\* the run ended with every statement of validateRepositories completed
RunSucceeded ==
    /\ phase = "exited" /\ err.kind = "none"
    /\ pc = Len(Steps) + 1
    /\ Succeeded("build", "client")

(* C16 as stated: if both repositories are clean and on a non-protected        *)
(* branch, both behind counts are zero and both test commands pass, the run    *)
(* reaches Built and ends with success.                                        *)
C16_GatesAndTestsSuffice ==
    (/\ phase = "exited" /\ Validated /\ ~ConfigInvalid
     /\ \A r \in Roles : GatePassed(r) /\ NotBehind(r) /\ Succeeded("test", r))
        => RunSucceeded

(* C16 amended: every awaited call returning, a started pipeline ends; and it  *)
(* ends with success, Built reached, when both repositories are clean and on a *)
(* non-protected branch, both behind counts are zero, the test commands and    *)
(* every other external command (fetch, pull, build, version bump, push, add,  *)
(* commit) exit 0 and the client manifest can be parsed.                       *)
C16_CleanRunSucceeds ==
    (phase = "pipeline") ~>
        (phase = "exited" /\ (StepFailed \/ StoppedAtVersionRead \/ RunSucceeded))

\* scenario A: both repositories on feature/x, nothing failed, the build ran
C16_Witness ==
    /\ RunSucceeded /\ ~StepFailed
    /\ \A r \in Roles : GatePassed(r) /\ repo[r].branch = "feature/x" /\ NotBehind(r)

\* the i-th command of the run pushed the version bump of its repository
PushedBranch(i) == log[i].cmd = "push-branch"

(* C18: in the full-release revision every `git push origin <branch>` of a     *)
(* repository names the branch that repository's branch gate resolved: the      *)
(* client is pushed to the client's branch and the server to the server's.      *)
C18_PushesToCapturedBranch ==
    \A i \in 1..Len(log) :
        PushedBranch(i) =>
            /\ variant = "full"
            /\ GatePassed(log[i].role)
            /\ log[i].arg = repo[log[i].role].branch

\* both repositories were pushed, from different branches, neither named
\* after the stage
C18_Witness ==
    /\ \A r \in Roles : Succeeded("push-branch", r)
    /\ repo["client"].branch # repo["server"].branch
    /\ \A r \in Roles : repo[r].branch # cfg.stage

\* the i-th command of the run acts on the repository the process stands in
DependsOnCwd(i) == log[i].cmd \in CwdCommands

(* C19: in the full-release revision every command that depends on the process *)
(* working directory (npm version, git push origin, git push --tags, git add,  *)
(* git commit) runs while the working directory is the folder of the           *)
(* repository it is meant for.                                                 *)
C19_CwdIsTargetRepository ==
    \A i \in 1..Len(log) :
        DependsOnCwd(i) =>
            /\ variant = "full"
            /\ log[i].cwd = FolderOf(log[i].role).s
            /\ log[i].cwd # LaunchDir

\* the whole release ran: client commands in the client folder, then server
\* commands in the server folder
C19_Witness ==
    /\ Succeeded("push-tags", "client")
    /\ Succeeded("git-commit", "server")
    /\ Succeeded("push-tags", "server")
    /\ cwd = FolderOf("server").s
    /\ FolderOf("client").s # FolderOf("server").s

\* the two path options of a project's entry
PathOptions == { "client", "server" }

\* a step stores, for a project, only what a path option of this invocation
\* supplied as a string
WritesOnlySuppliedPaths ==
    \A p \in Projects : \A f \in PathOptions :
        store'[p][f] # store[p][f] =>
            /\ ConfigInvocation /\ HasArg(argv, 1) /\ p = ArgAtIndex(argv, 1)
            /\ TypeOf(argv[f]) = "string"
            /\ store'[p][f] = argv[f]

\* a config command refused with INVALID_ARGUMENTS wrote nothing
RefusalLeavesStore == err'.kind = "INVALID_ARGUMENTS" => store' = store

\* an option that was not given keeps its stored value; other projects keep theirs
AbsentOptionLeavesRest ==
    /\ \A p \in Projects : \A f \in PathOptions :
            argv[f] = Undefined => store'[p][f] = store[p][f]
    /\ \A p \in Projects :
            (HasArg(argv, 1) /\ p # ArgAtIndex(argv, 1)) => store'[p] = store[p]

(* C20: after any sequence of config commands every stored client/server value *)
(* is a string path that was supplied as the value of --client/--server; a     *)
(* config command refused with INVALID_ARGUMENTS leaves the store unchanged;   *)
(* a config command given only one of the two options leaves the other         *)
(* option's stored value and all other projects' entries unchanged.            *)
C20_ConfigStoresSuppliedPaths ==
    [][WritesOnlySuppliedPaths /\ RefusalLeavesStore /\ AbsentOptionLeavesRest]_vars

====
